---- MODULE Spec2Model ----
(***************************************************************************)
(* Model of demo.c: the AXI DMA demonstration program.  The primary        *)
(* thread (main) configures the device, parses the command line, takes a   *)
(* device handle, resolves the channels, issues three sends, creates the   *)
(* detached receive thread (rapidio_taks_rec) and returns.  The receive    *)
(* thread repeats the set-up and then reads in an endless loop.            *)
(***************************************************************************)
EXTENDS Integers, Sequences, FiniteSets, TLC

\* ------------------------------------------------------------------ bounds
\* longest list of option tokens and largest number of trailing positional
\* tokens on the command lines that parse_args is checked on (SpecArgs)
MaxOpts == 3
MaxPos == 3
\* the same two limits for the command lines whole runs start from (Spec)
MaxRunOpts == 2
MaxRunPos == 0
\* number of receive calls after which the model stops following the loop
MaxReads == 2
\* the longest transfer a receive call of the model reports, and with it
\* the leading part of rbuffer that the model keeps
MaxRecLen == 17

\* ------------------------------------------------------- program constants
EINVAL == 22
ENODEV == 19
MAXLENGTH == 2048
\* the sentinel parse_args stores for "channel not given"
UNSET == 0 - 1
\* the null handle axidma_init returns on failure
NULL == 0
\* bytes in one MiB (MIB_TO_BYTE)
MIB == 1048576

\* --------------------------------------------------------- command line
\* An option token is one option of the getopt string "t:r:s:o:h" together
\* with its argument: ok says whether parse_int/parse_double can read the
\* argument, val is the number read.  "unk" stands for whatever makes getopt
\* return '?': an unknown option letter or a missing option argument.
Tok(o, k, v) == [opt |-> o, ok |-> k, val |-> v]

OptTokens ==
    { Tok("t", TRUE, UNSET), Tok("t", TRUE, 5), Tok("t", FALSE, 0),
      Tok("r", TRUE, UNSET), Tok("r", TRUE, 7), Tok("r", FALSE, 0),
      Tok("s", TRUE, 64), Tok("s", FALSE, 0),
      Tok("o", TRUE, 1),
      Tok("h", TRUE, 0), Tok("unk", TRUE, 0) }

SeqsUpTo(S, n) == UNION { [1..k -> S] : k \in 0..n }

\* A command line: the option tokens in order, then npos positional tokens.
ArgLists == [opts : SeqsUpTo(OptTokens, MaxOpts), npos : 0..MaxPos]

RunArgLists == [opts : SeqsUpTo(OptTokens, MaxRunOpts), npos : 0..MaxRunPos]

\* argv elements an option token occupies ("-t" "5" is two, "-h" is one)
Width(tok) == IF tok.opt \in {"t", "r", "s", "o"} THEN 2 ELSE 1

RECURSIVE SumWidth(_)
SumWidth(s) == IF s = << >> THEN 0 ELSE Width(Head(s)) + SumWidth(Tail(s))

\* argc of a command line: the program name, the options, the positionals
Argc(a) == 1 + SumWidth(a.opts) + a.npos

\* parse_int / parse_double of util.h: 0 and the value, or a negative code
parse_int(tok) == IF tok.ok THEN [rc |-> 0, val |-> tok.val]
                            ELSE [rc |-> 0 - EINVAL, val |-> 0]

parse_double(tok) == IF tok.ok THEN [rc |-> 0, val |-> tok.val]
                               ELSE [rc |-> 0 - EINVAL, val |-> 0]

MIB_TO_BYTE(v) == v * MIB

\* The values parse_args starts from
ParseDefaults ==
    [input_channel |-> UNSET, output_channel |-> UNSET, output_size |-> UNSET,
     o_specified |-> FALSE, s_specified |-> FALSE]

\* What parse_args hands back: how it ended (kind "return", or "exit" for
\* the exit(0) of -h), its return code, the check that rejected the line
\* (why), whether the getopt loop ran to its end, optind at that point, and
\* the three output parameters.
ParseEnd(kind, rc, why, done, optind, st) ==
    [kind |-> kind, rc |-> rc, why |-> why, loopDone |-> done,
     optind |-> optind, input_channel |-> st.input_channel,
     output_channel |-> st.output_channel, output_size |-> st.output_size]

\* If one of -t or -r is specified, then both must be
PairCheck(st) == (st.input_channel = UNSET) # (st.output_channel = UNSET)

\* a variant of SizeCheck that tests -s alone
SizeCheckMutant(st) == st.s_specified /\ ~st.o_specified

\* Only one of -s and -o can be specified
SizeCheck(st) == st.s_specified /\ st.o_specified

\* a variant of TooMany that allows one more argument
TooManyMutant(optind, argc) == optind < argc - 3

\* Check if there are too many command line arguments remaining
TooMany(optind, argc) == optind < argc - 2

\* the checks that follow the getopt loop
AfterLoop(st, optind, argc) ==
    IF PairCheck(st) THEN ParseEnd("return", 0 - EINVAL, "pair", TRUE, optind, st)
    ELSE IF SizeCheck(st) THEN ParseEnd("return", 0 - EINVAL, "size", TRUE, optind, st)
    ELSE IF TooMany(optind, argc)
         THEN ParseEnd("return", 0 - EINVAL, "toomany", TRUE, optind, st)
    ELSE ParseEnd("return", 0, "none", TRUE, optind, st)

\* the getopt loop: one option token per round, optind moving past it
RECURSIVE OptLoop(_, _, _, _)
OptLoop(rest, st, optind, argc) ==
    IF rest = << >> THEN AfterLoop(st, optind, argc)
    ELSE LET tok == Head(rest)
             nxt == optind + Width(tok)
         IN  CASE tok.opt = "t" ->
                    LET p == parse_int(tok) IN
                    IF p.rc < 0 THEN ParseEnd("return", p.rc, "value", FALSE, nxt, st)
                    ELSE OptLoop(Tail(rest), [st EXCEPT !.input_channel = p.val],
                                 nxt, argc)
               [] tok.opt = "r" ->
                    LET p == parse_int(tok) IN
                    IF p.rc < 0 THEN ParseEnd("return", p.rc, "value", FALSE, nxt, st)
                    ELSE OptLoop(Tail(rest), [st EXCEPT !.output_channel = p.val],
                                 nxt, argc)
               [] tok.opt = "s" ->
                    LET p == parse_int(tok) IN
                    IF p.rc < 0 THEN ParseEnd("return", p.rc, "value", FALSE, nxt, st)
                    ELSE OptLoop(Tail(rest),
                                 [st EXCEPT !.output_size = p.val,
                                            !.s_specified = TRUE], nxt, argc)
               [] tok.opt = "o" ->
                    LET p == parse_double(tok) IN
                    IF p.rc < 0 THEN ParseEnd("return", p.rc, "value", FALSE, nxt, st)
                    ELSE OptLoop(Tail(rest),
                                 [st EXCEPT !.output_size = MIB_TO_BYTE(p.val),
                                            !.o_specified = TRUE], nxt, argc)
               [] tok.opt = "h" -> ParseEnd("exit", 0, "help", FALSE, nxt, st)
               [] OTHER -> ParseEnd("return", 0 - EINVAL, "option", FALSE, nxt, st)

parse_args(a) == OptLoop(a.opts, ParseDefaults, 1, Argc(a))


\* ----------------------------------------------------------------- state
VARIABLES
    argv,      \* the command line the process was started with
    proc,      \* "running", "exited" (exit or return from main), "aborted"
    status,    \* the exit status once the process has ended, UNSET before
    configs,   \* axidma_config() calls made so far
    regw,      \* XDma_Out32 register writes made so far
    initCalls, \* axidma_init() calls made so far
    handles,   \* handles[h]: axidma_destroy(h) calls; h is the h-th handle
               \* axidma_init handed out
    queries,   \* channel queries made so far
    sends,     \* the send calls of the run, in call order
    nreads,    \* receive calls made so far
    readFailed,\* some receive call has returned a negative result
    sbufFills, \* the threads that have filled sbuffer, in order
    fdOpen,    \* descriptor 0 (the zeroed trans.output_fd) is open
    m,         \* the primary thread: position and locals of main
    r,         \* the receive thread: position and locals of rapidio_taks_rec
    rbuffer,   \* rbuffer[i + 1] is byte i of the receive buffer
    rbufUsers, \* the threads that have written or read rbuffer
    out        \* what the current round of the receive loop has printed

vars == << argv, proc, status, configs, regw, initCalls, handles, queries,
           sends, nreads, readFailed, sbufFills, fdOpen, m, r,
           rbuffer, rbufUsers, out >>

\* the receive buffer and the printed output, which only the receive loop
\* touches
iovars == << rbuffer, rbufUsers, out >>

\* struct dma_transfer after memset(&trans, 0, sizeof(trans))
ZeroTrans == [input_channel |-> 0, output_channel |-> 0, output_size |-> 0,
              input_size |-> 0, output_fd |-> 0]

\* the locals of either thread function before it has run; err is not a
\* local but the diagnostic parse_args printed for the thread: "none", or
\* "help" for the help text, or the check that rejected the command line
Locals(pc) == [pc |-> pc, trans |-> ZeroTrans, dev |-> NULL, rc |-> 0,
               tx |-> << >>, rx |-> << >>, rec_len |-> 0, err |-> "none"]

\* what a channel query may report, in ascending channel order
TxSets == { << >>, <<2, 3>> }
RxSets == { << >>, <<1, 4>> }

\* what a send call may return: 0, or a negative code
SendResults == { 0, 0 - 1 }

\* what a receive call may return: a byte count, or a negative code
RecLens == { 0 - 1, 0, MaxRecLen }

\* the data a receive may bring: byte i of a transfer that starts at seed
RxSeeds == { 3, 250 }
RxByte(seed, i) == (seed + i) % 256

\* a variant of SendSizes with the last two sends exchanged
SendSizesMutant == << 1000, 1800, 2000 >>

\* the sizes of the three sends of main, in program order
SendSizes == << 1000, 2000, 1800 >>

SendPc == << "send1", "send2", "send3" >>
WaitPc == << "wait1", "wait2", "wait3" >>

\* the exit status the parent sees for a value returned from main
ExitStatus(rc) == rc % 256

\* the state of a fresh process but for its command line
Start ==
    /\ proc = "running"
    /\ status = UNSET
    /\ configs = 0
    /\ regw = 0
    /\ initCalls = 0
    /\ handles = << >>
    /\ queries = 0
    /\ sends = << >>
    /\ nreads = 0
    /\ readFailed = FALSE
    /\ sbufFills = << >>
    /\ fdOpen = TRUE
    /\ m = Locals("config")
    /\ r = Locals("none")
    /\ rbuffer = [i \in 1..MaxRecLen |-> 0]
    /\ rbufUsers = { }
    /\ out = << >>

Init == argv \in RunArgLists /\ Start

InitArgs == argv \in ArgLists /\ Start

\* the process ends: every thread stops where it is
EndProcess(how, st) ==
    /\ proc' = how
    /\ status' = st

Alive == proc = "running"

\* ------------------------------------------------------ steps both share
\* memset and parse_args, then the branch on its result; parse_args has
\* stored through its three pointers whatever it had read when it returned
AfterParse(loc, res) ==
    LET tr == [ZeroTrans EXCEPT !.input_channel = res.input_channel,
                                !.output_channel = res.output_channel,
                                !.output_size = res.output_size]
    IN  IF res.rc < 0
        THEN [loc EXCEPT !.trans = tr, !.err = res.why, !.rc = 1, !.pc = "ret"]
        ELSE [loc EXCEPT !.trans = tr, !.err = res.why, !.pc = "init"]

\* a variant of AfterInit that leaves by destroy_axidma on failure
AfterInitMutant(loc, ok) ==
    IF ok THEN [loc EXCEPT !.dev = Len(handles) + 1, !.pc = "get_tx"]
          ELSE [loc EXCEPT !.dev = NULL, !.rc = 1, !.pc = "destroy_axidma"]

\* axidma_init() and the test of its result
AfterInit(loc, ok) ==
    IF ok THEN [loc EXCEPT !.dev = Len(handles) + 1, !.pc = "get_tx"]
          ELSE [loc EXCEPT !.dev = NULL, !.rc = 1, !.pc = "close_output"]

\* a variant of AfterGetTx that leaves by close_output
AfterGetTxMutant(loc, set) ==
    IF Len(set) < 1
    THEN [loc EXCEPT !.tx = set, !.rc = 0 - ENODEV, !.pc = "close_output"]
    ELSE [loc EXCEPT !.tx = set, !.pc = "get_rx"]

\* axidma_get_dma_tx and the test of tx_chans->len
AfterGetTx(loc, set) ==
    IF Len(set) < 1
    THEN [loc EXCEPT !.tx = set, !.rc = 0 - ENODEV, !.pc = "destroy_axidma"]
    ELSE [loc EXCEPT !.tx = set, !.pc = "get_rx"]

\* axidma_get_dma_rx and the test of rx_chans->len
AfterGetRx(loc, set) ==
    IF Len(set) < 1
    THEN [loc EXCEPT !.rx = set, !.rc = 0 - ENODEV, !.pc = "destroy_axidma"]
    ELSE [loc EXCEPT !.rx = set, !.pc = "resolve"]

\* a variant of Resolve that takes the last channel of each set
ResolveMutant(trans, tx, rx) ==
    IF trans.input_channel = UNSET /\ trans.output_channel = UNSET
    THEN [trans EXCEPT !.input_channel = tx[Len(tx)],
                       !.output_channel = rx[Len(rx)]]
    ELSE trans

\* the default to the lowest numbered channels
Resolve(trans, tx, rx) ==
    IF trans.input_channel = UNSET /\ trans.output_channel = UNSET
    THEN [trans EXCEPT !.input_channel = tx[1], !.output_channel = rx[1]]
    ELSE trans


\* ------------------------------------------------- the primary thread: main
\* axidma_config()
MainConfig ==
    /\ Alive /\ m.pc = "config"
    /\ configs' = configs + 1
    /\ m' = [m EXCEPT !.pc = "regwrite"]
    /\ UNCHANGED << argv, proc, status, regw, initCalls, handles, queries,
                    sends, nreads, readFailed, sbufFills, fdOpen, r >>
    /\ UNCHANGED iovars

\* XDma_Out32(map_base0+4,1)
MainRegWrite ==
    /\ Alive /\ m.pc = "regwrite"
    /\ regw' = regw + 1
    /\ m' = [m EXCEPT !.pc = "fill"]
    /\ UNCHANGED << argv, proc, status, configs, initCalls, handles, queries,
                    sends, nreads, readFailed, sbufFills, fdOpen, r >>
    /\ UNCHANGED iovars

\* the loop that fills sbuffer
MainFill ==
    /\ Alive /\ m.pc = "fill"
    /\ sbufFills' = Append(sbufFills, "main")
    /\ m' = [m EXCEPT !.pc = "parse"]
    /\ UNCHANGED << argv, proc, status, configs, regw, initCalls, handles,
                    queries, sends, nreads, readFailed, fdOpen, r >>
    /\ UNCHANGED iovars

\* memset, parse_args(argc, argv, ...): -h ends the process inside parse_args
MainParse ==
    /\ Alive /\ m.pc = "parse"
    /\ LET res == parse_args(argv) IN
       IF res.kind = "exit"
       THEN /\ EndProcess("exited", ExitStatus(res.rc))
            /\ m' = [m EXCEPT !.err = res.why]
       ELSE /\ m' = AfterParse(m, res)
            /\ UNCHANGED << proc, status >>
    /\ UNCHANGED << argv, configs, regw, initCalls, handles, queries, sends,
                    nreads, readFailed, sbufFills, fdOpen, r >>
    /\ UNCHANGED iovars

\* axidma_dev = axidma_init()
MainInit ==
    /\ Alive /\ m.pc = "init"
    /\ initCalls' = initCalls + 1
    /\ \E ok \in BOOLEAN :
          /\ m' = AfterInit(m, ok)
          /\ handles' = IF ok THEN Append(handles, 0) ELSE handles
    /\ UNCHANGED << argv, proc, status, configs, regw, queries, sends, nreads,
                    readFailed, sbufFills, fdOpen, r >>
    /\ UNCHANGED iovars

\* tx_chans = axidma_get_dma_tx(axidma_dev)
MainGetTx ==
    /\ Alive /\ m.pc = "get_tx"
    /\ queries' = queries + 1
    /\ \E set \in TxSets : m' = AfterGetTx(m, set)
    /\ UNCHANGED << argv, proc, status, configs, regw, initCalls, handles,
                    sends, nreads, readFailed, sbufFills, fdOpen, r >>
    /\ UNCHANGED iovars

\* rx_chans = axidma_get_dma_rx(axidma_dev)
MainGetRx ==
    /\ Alive /\ m.pc = "get_rx"
    /\ queries' = queries + 1
    /\ \E set \in RxSets : m' = AfterGetRx(m, set)
    /\ UNCHANGED << argv, proc, status, configs, regw, initCalls, handles,
                    sends, nreads, readFailed, sbufFills, fdOpen, r >>
    /\ UNCHANGED iovars

\* the channel defaults and the transfer summary
MainResolve ==
    /\ Alive /\ m.pc = "resolve"
    /\ m' = [m EXCEPT !.trans = Resolve(m.trans, m.tx, m.rx), !.pc = SendPc[1]]
    /\ UNCHANGED << argv, proc, status, configs, regw, initCalls, handles,
                    queries, sends, nreads, readFailed, sbufFills, fdOpen, r >>
    /\ UNCHANGED iovars

\* trans as the k-th send call of main finds it
SendTrans(trans, k) ==
    IF k = 1 THEN [trans EXCEPT !.input_size = SendSizes[k],
                                !.output_size = 2048]
             ELSE [trans EXCEPT !.input_size = SendSizes[k]]

\* the k-th axidma0send(axidma_dev, &trans, sbuffer) is entered
MainSendCall(k) ==
    /\ Alive /\ m.pc = SendPc[k]
    /\ LET tr == SendTrans(m.trans, k) IN
       /\ m' = [m EXCEPT !.trans = tr, !.pc = WaitPc[k]]
       /\ sends' = Append(sends, [dev |-> m.dev, chan |-> tr.input_channel,
                                  size |-> tr.input_size, done |-> FALSE,
                                  rc |-> 0])
    /\ UNCHANGED << argv, proc, status, configs, regw, initCalls, handles,
                    queries, nreads, readFailed, sbufFills, fdOpen, r >>
    /\ UNCHANGED iovars

\* a variant of AfterSend that creates the thread after the second send
AfterSendMutant(k, res) == IF k < 2 THEN SendPc[k + 1] ELSE "create"

\* where main goes when its k-th send has returned res
AfterSend(k, res) == IF k < 3 THEN SendPc[k + 1] ELSE "create"

\* the k-th send returns; rc takes its result and main goes on
MainSendReturn(k) ==
    /\ Alive /\ m.pc = WaitPc[k]
    /\ \E res \in SendResults :
          /\ m' = [m EXCEPT !.rc = res, !.pc = AfterSend(k, res)]
          /\ sends' = [sends EXCEPT ![k].done = TRUE, ![k].rc = res]
    /\ UNCHANGED << argv, proc, status, configs, regw, initCalls, handles,
                    queries, nreads, readFailed, sbufFills, fdOpen, r >>
    /\ UNCHANGED iovars

\* pthread_create(&rapidio_rid, NULL, &rapidio_taks_rec, NULL); on failure
\* main returns -1 at once
MainCreate ==
    /\ Alive /\ m.pc = "create"
    /\ \E ok \in BOOLEAN :
          IF ok
          THEN /\ r' = [r EXCEPT !.pc = "config"]
               /\ m' = [m EXCEPT !.pc = "detach"]
               /\ UNCHANGED << proc, status >>
          ELSE /\ EndProcess("exited", ExitStatus(0 - 1))
               /\ UNCHANGED << m, r >>
    /\ UNCHANGED << argv, configs, regw, initCalls, handles, queries, sends,
                    nreads, readFailed, sbufFills, fdOpen >>
    /\ UNCHANGED iovars

\* pthread_detach, then rc = (rc < 0) ? -rc : 0
MainDetach ==
    /\ Alive /\ m.pc = "detach"
    /\ m' = [m EXCEPT !.rc = IF m.rc < 0 THEN 0 - m.rc ELSE 0,
                      !.pc = "destroy_axidma"]
    /\ UNCHANGED << argv, proc, status, configs, regw, initCalls, handles,
                    queries, sends, nreads, readFailed, sbufFills, fdOpen, r >>
    /\ UNCHANGED iovars

\* destroy_axidma: axidma_destroy(axidma_dev)
MainDestroy ==
    /\ Alive /\ m.pc = "destroy_axidma"
    /\ handles' = [handles EXCEPT ![m.dev] = @ + 1]
    /\ m' = [m EXCEPT !.pc = "close_output"]
    /\ UNCHANGED << argv, proc, status, configs, regw, initCalls, queries,
                    sends, nreads, readFailed, sbufFills, fdOpen, r >>
    /\ UNCHANGED iovars

\* close_output: assert(close(trans.output_fd) == 0); output_fd is the 0 of
\* the memset, and a failed assertion aborts the process
MainClose ==
    /\ Alive /\ m.pc = "close_output"
    /\ IF fdOpen
       THEN /\ fdOpen' = FALSE
            /\ m' = [m EXCEPT !.pc = "ret"]
            /\ UNCHANGED << proc, status >>
       ELSE /\ EndProcess("aborted", 134)
            /\ UNCHANGED << fdOpen, m >>
    /\ UNCHANGED << argv, configs, regw, initCalls, handles, queries, sends,
                    nreads, readFailed, sbufFills, r >>
    /\ UNCHANGED iovars

\* ret: return rc; the return from main ends the process and with it the
\* receive thread
MainReturn ==
    /\ Alive /\ m.pc = "ret"
    /\ EndProcess("exited", ExitStatus(m.rc))
    /\ m' = [m EXCEPT !.pc = "done"]
    /\ UNCHANGED << argv, configs, regw, initCalls, handles, queries, sends,
                    nreads, readFailed, sbufFills, fdOpen, r >>
    /\ UNCHANGED iovars


\* ------------------------------------- the receive thread: rapidio_taks_rec
\* axidma_config()
RecConfig ==
    /\ Alive /\ r.pc = "config"
    /\ configs' = configs + 1
    /\ r' = [r EXCEPT !.pc = "regwrite"]
    /\ UNCHANGED << argv, proc, status, regw, initCalls, handles, queries,
                    sends, nreads, readFailed, sbufFills, fdOpen, m >>
    /\ UNCHANGED iovars

\* XDma_Out32(map_base0+4,1)
RecRegWrite ==
    /\ Alive /\ r.pc = "regwrite"
    /\ regw' = regw + 1
    /\ r' = [r EXCEPT !.pc = "fill"]
    /\ UNCHANGED << argv, proc, status, configs, initCalls, handles, queries,
                    sends, nreads, readFailed, sbufFills, fdOpen, m >>
    /\ UNCHANGED iovars

\* the loop that fills sbuffer
RecFill ==
    /\ Alive /\ r.pc = "fill"
    /\ sbufFills' = Append(sbufFills, "rec")
    /\ r' = [r EXCEPT !.pc = "parse"]
    /\ UNCHANGED << argv, proc, status, configs, regw, initCalls, handles,
                    queries, sends, nreads, readFailed, fdOpen, m >>
    /\ UNCHANGED iovars

\* what the receive thread may find in its argc and argv: the empty command
\* line, or any one or two options
RecArgLists == [opts : SeqsUpTo(OptTokens, 2), npos : {0}]

\* what parse_args may hand back to the receive thread
RecParseResults == { parse_args(a) : a \in RecArgLists }

\* memset, parse_args(argc, argv, ...).  The thread function is declared
\* with (int argc, char **argv) but pthread_create calls it with the one
\* pointer NULL, so what it finds in argc and argv is not the command line
\* of the process: what parse_args reads there may be any command line,
\* the empty one (argc 0) among them.
RecParse ==
    /\ Alive /\ r.pc = "parse"
    /\ \E res \in RecParseResults :
          IF res.kind = "exit"
          THEN /\ EndProcess("exited", ExitStatus(res.rc))
               /\ r' = [r EXCEPT !.err = res.why]
          ELSE /\ r' = AfterParse(r, res)
               /\ UNCHANGED << proc, status >>
    /\ UNCHANGED << argv, configs, regw, initCalls, handles, queries, sends,
                    nreads, readFailed, sbufFills, fdOpen, m >>
    /\ UNCHANGED iovars

\* axidma_dev = axidma_init()
RecInit ==
    /\ Alive /\ r.pc = "init"
    /\ initCalls' = initCalls + 1
    /\ \E ok \in BOOLEAN :
          /\ r' = AfterInit(r, ok)
          /\ handles' = IF ok THEN Append(handles, 0) ELSE handles
    /\ UNCHANGED << argv, proc, status, configs, regw, queries, sends, nreads,
                    readFailed, sbufFills, fdOpen, m >>
    /\ UNCHANGED iovars

\* tx_chans = axidma_get_dma_tx(axidma_dev)
RecGetTx ==
    /\ Alive /\ r.pc = "get_tx"
    /\ queries' = queries + 1
    /\ \E set \in TxSets : r' = AfterGetTx(r, set)
    /\ UNCHANGED << argv, proc, status, configs, regw, initCalls, handles,
                    sends, nreads, readFailed, sbufFills, fdOpen, m >>
    /\ UNCHANGED iovars

\* rx_chans = axidma_get_dma_rx(axidma_dev)
RecGetRx ==
    /\ Alive /\ r.pc = "get_rx"
    /\ queries' = queries + 1
    /\ \E set \in RxSets : r' = AfterGetRx(r, set)
    /\ UNCHANGED << argv, proc, status, configs, regw, initCalls, handles,
                    sends, nreads, readFailed, sbufFills, fdOpen, m >>
    /\ UNCHANGED iovars

\* the channel defaults
RecResolve ==
    /\ Alive /\ r.pc = "resolve"
    /\ r' = [r EXCEPT !.trans = Resolve(r.trans, r.tx, r.rx), !.pc = "read"]
    /\ UNCHANGED << argv, proc, status, configs, regw, initCalls, handles,
                    queries, sends, nreads, readFailed, sbufFills, fdOpen, m >>
    /\ UNCHANGED iovars

\* while(1): a round begins, axidma0read(axidma_dev, &trans, rbuffer) is
\* entered
RecReadCall ==
    /\ Alive /\ r.pc = "read"
    /\ nreads < MaxReads
    /\ nreads' = nreads + 1
    /\ r' = [r EXCEPT !.pc = "read_wait"]
    /\ UNCHANGED << argv, proc, status, configs, regw, initCalls, handles,
                    queries, sends, readFailed, sbufFills, fdOpen, m >>
    /\ out' = << >>
    /\ UNCHANGED << rbuffer, rbufUsers >>

\* where the thread goes when its receive call has returned n
AfterRead(n) == "print"

\* rbuffer after a receive that reports n bytes of the data starting at seed
Received(buf, n, seed) ==
    [i \in 1..MaxRecLen |-> IF i <= n THEN RxByte(seed, i - 1) ELSE buf[i]]

\* the receive call returns into rec_len, the data received is in rbuffer
RecReadReturn ==
    /\ Alive /\ r.pc = "read_wait"
    /\ \E n \in RecLens, seed \in RxSeeds :
          /\ r' = [r EXCEPT !.rec_len = n, !.pc = AfterRead(n)]
          /\ readFailed' = (readFailed \/ n < 0)
          /\ rbuffer' = Received(rbuffer, n, seed)
          /\ rbufUsers' = rbufUsers \cup {"rec"}
    /\ UNCHANGED out
    /\ UNCHANGED << argv, proc, status, configs, regw, initCalls, handles,
                    queries, sends, nreads, sbufFills, fdOpen, m >>

\* a variant of DumpFrom that breaks the line every 8 bytes
RECURSIVE DumpFromMutant(_, _, _)
DumpFromMutant(i, n, buf) ==
    IF i >= n THEN << >>
    ELSE (IF i % 8 = 0 THEN << [k |-> "nl", v |-> 0] >> ELSE << >>)
         \o << [k |-> "hex", v |-> buf[i + 1]] >>
         \o DumpFromMutant(i + 1, n, buf)

\* the for loop over rbuffer from index i on: a line break before every
\* 16th byte, then the byte as "0x%02x "
RECURSIVE DumpFrom(_, _, _)
DumpFrom(i, n, buf) ==
    IF i >= n THEN << >>
    ELSE (IF i % 16 = 0 THEN << [k |-> "nl", v |-> 0] >> ELSE << >>)
         \o << [k |-> "hex", v |-> buf[i + 1]] >>
         \o DumpFrom(i + 1, n, buf)

\* one round of printing: the "rec_len = " line, then the bytes
Dump(n, buf) == << [k |-> "len", v |-> n] >> \o DumpFrom(0, n, buf)

\* rec_len and the bytes of rbuffer are printed; the loop goes round
RecPrint ==
    /\ Alive /\ r.pc = "print"
    /\ r' = [r EXCEPT !.pc = "read"]
    /\ out' = Dump(r.rec_len, rbuffer)
    /\ rbufUsers' = IF r.rec_len > 0 THEN rbufUsers \cup {"rec"} ELSE rbufUsers
    /\ UNCHANGED rbuffer
    /\ UNCHANGED << argv, proc, status, configs, regw, initCalls, handles,
                    queries, sends, nreads, readFailed, sbufFills, fdOpen, m >>

\* destroy_axidma: axidma_destroy(axidma_dev)
RecDestroy ==
    /\ Alive /\ r.pc = "destroy_axidma"
    /\ handles' = [handles EXCEPT ![r.dev] = @ + 1]
    /\ r' = [r EXCEPT !.pc = "close_output"]
    /\ UNCHANGED << argv, proc, status, configs, regw, initCalls, queries,
                    sends, nreads, readFailed, sbufFills, fdOpen, m >>
    /\ UNCHANGED iovars

\* close_output: assert(close(trans.output_fd) == 0)
RecClose ==
    /\ Alive /\ r.pc = "close_output"
    /\ IF fdOpen
       THEN /\ fdOpen' = FALSE
            /\ r' = [r EXCEPT !.pc = "ret"]
            /\ UNCHANGED << proc, status >>
       ELSE /\ EndProcess("aborted", 134)
            /\ UNCHANGED << fdOpen, r >>
    /\ UNCHANGED << argv, configs, regw, initCalls, handles, queries, sends,
                    nreads, readFailed, sbufFills, m >>
    /\ UNCHANGED iovars

\* ret: return rc ends the thread, not the process
RecReturn ==
    /\ Alive /\ r.pc = "ret"
    /\ r' = [r EXCEPT !.pc = "done"]
    /\ UNCHANGED << argv, proc, status, configs, regw, initCalls, handles,
                    queries, sends, nreads, readFailed, sbufFills, fdOpen, m >>
    /\ UNCHANGED iovars

\* ------------------------------------------------------------ specification
Next ==
    \/ MainConfig \/ MainRegWrite \/ MainFill \/ MainParse \/ MainInit
    \/ MainGetTx \/ MainGetRx \/ MainResolve
    \/ \E k \in 1..3 : MainSendCall(k)
    \/ \E k \in 1..3 : MainSendReturn(k)
    \/ MainCreate \/ MainDetach \/ MainDestroy \/ MainClose \/ MainReturn
    \/ RecConfig \/ RecRegWrite \/ RecFill \/ RecParse \/ RecInit
    \/ RecGetTx \/ RecGetRx \/ RecResolve
    \/ RecReadCall \/ RecReadReturn \/ RecPrint
    \/ RecDestroy \/ RecClose \/ RecReturn

Spec == Init /\ [][Next]_vars

\* the run of main up to the end of argument validation, on the longer
\* command lines
NextArgs ==
    \/ MainConfig \/ MainRegWrite \/ MainFill \/ MainParse \/ MainReturn

SpecArgs == InitArgs /\ [][NextArgs]_vars

TypeOK ==
    /\ proc \in {"running", "exited", "aborted"}
    /\ Len(handles) <= 2
    /\ Len(sends) <= 3
    /\ nreads \in 0..MaxReads


\* ------------------------------------------------------------------ claims
\* main has finished with parse_args (or the process has ended inside it)
Parsed == m.pc \notin {"config", "regwrite", "fill", "parse"} \/ ~Alive

\* the command line holds option o
HasOpt(a, o) == \E i \in 1..Len(a.opts) : a.opts[i].opt = o

\* getopt hands every option of the line to the loop and each is read
OptionsConsumed(a) ==
    \A i \in 1..Len(a.opts) :
        a.opts[i].opt \in {"t", "r", "s", "o"} /\ a.opts[i].ok

\* the option scan comes to a -h with nothing rejected before it
HelpReached(a) ==
    \E i \in 1..Len(a.opts) :
        /\ a.opts[i].opt = "h"
        /\ \A j \in 1..(i - 1) : a.opts[j].opt \in {"t", "r", "s", "o"}
                                 /\ a.opts[j].ok

\* main has rejected the command line: an ArgumentError
Rejected == m.err \notin {"none", "help"} /\ m.rc = 1 /\ m.pc \in {"ret", "done"}

\* the receive thread is in its while(1) loop
InLoop == r.pc \in {"read", "read_wait", "print"}

\* C1: when the process has ended by exit or by a return from main, every
\* device handle axidma_init handed out has been destroyed exactly once.
C1_DestroyedExactlyOnce ==
    proc = "exited" => \A h \in 1..Len(handles) : handles[h] = 1

\* C2: at most one device handle is ever created, and every send and every
\* receive call is made on that one handle.
C2_SingleSharedHandle ==
    /\ Len(handles) <= 1
    /\ \A k \in 1..Len(sends) : sends[k].dev = 1
    /\ r.pc = "read_wait" => r.dev = m.dev

\* C3: the sends of main are made one after another with input_size 1000,
\* then 2000, then 1800: a send is entered only when every earlier send has
\* returned, so at most one is outstanding, and while a send is outstanding
\* trans.input_size holds the size of that send.
C3_SendsSequential ==
    /\ Len(sends) <= 3
    /\ \A k \in 1..Len(sends) :
          /\ sends[k].size = << 1000, 2000, 1800 >>[k]
          /\ k < Len(sends) => sends[k].done
    /\ \A k \in 1..3 :
          m.pc = WaitPc[k] => /\ Len(sends) = k
                              /\ ~sends[k].done
                              /\ m.trans.input_size = sends[k].size

C3_Witness ==
    /\ Len(sends) = 3
    /\ \A k \in 1..3 : sends[k].done
    /\ sends[1].size = 1000 /\ sends[2].size = 2000 /\ sends[3].size = 1800

\* C4: when a send of main has returned a failure, no later send is made
\* in that run: a failed send is the last entry of the run's sends.
C4_FailedSendIsLast ==
    \A k \in 1..Len(sends) :
        (sends[k].done /\ sends[k].rc < 0) => k = Len(sends)

\* C5: when a receive call has returned a failure, the receive thread makes
\* no further receive call: no receive call is entered once one has failed.
C5_FailedReadEndsLoop ==
    readFailed => r.pc # "read_wait"

\* C6: the return of main does not end a receive loop that no receive
\* failure has ended: the process never ends by main returning while the
\* receive thread is in its loop with no receive call failed.
C6_LoopOutlivesMain ==
    ~(proc = "exited" /\ m.pc = "done" /\ InLoop /\ ~readFailed)

\* C7: a command line that holds exactly one of -t and -r, whatever the
\* channel value (-1 included), is rejected and no transfer is attempted.
\* Stated for the command lines whose options all reach the pairing check.
C7_LoneChannelRejected ==
    (Parsed /\ OptionsConsumed(argv) /\ (HasOpt(argv, "t") # HasOpt(argv, "r")))
        => Rejected /\ sends = << >> /\ nreads = 0

\* C8 as claimed: every command line that holds both -s and -o with
\* well-formed values is rejected.
C8_BothSizesAlwaysRejected ==
    (Parsed /\ HasOpt(argv, "s") /\ HasOpt(argv, "o")
       /\ \A i \in 1..Len(argv.opts) :
             argv.opts[i].opt \in {"s", "o"} => argv.opts[i].ok)
        => Rejected

\* C8 as amended: a command line that holds both -s and -o is rejected
\* unless the option scan comes to a -h before anything is rejected, and
\* then the process ends with status 0; a command line that holds only one
\* of -s and -o is not rejected by the -s/-o check.
C8_BothSizesRejectedUnlessHelp ==
    Parsed =>
      /\ (HasOpt(argv, "s") /\ HasOpt(argv, "o") /\ ~HelpReached(argv))
            => Rejected
      /\ (HasOpt(argv, "s") /\ HasOpt(argv, "o") /\ HelpReached(argv))
            => m.err = "help" /\ proc = "exited" /\ status = 0
      /\ (HasOpt(argv, "s") # HasOpt(argv, "o")) => m.err # "size"

C8_Witness ==
    /\ Parsed /\ OptionsConsumed(argv)
    /\ HasOpt(argv, "s") /\ HasOpt(argv, "o")
    /\ m.err = "size" /\ Rejected

\* C9: when every option has been consumed, the command line is rejected
\* whenever more than 2 positional tokens remain, and the check for too
\* many arguments does not reject it when 0, 1 or 2 remain.
C9_TrailingAllowance ==
    (Parsed /\ OptionsConsumed(argv)) =>
      /\ argv.npos > 2 => Rejected
      /\ argv.npos <= 2 => m.err # "toomany"

C9_Witness ==
    /\ Parsed /\ OptionsConsumed(argv)
    /\ argv.npos = 3 /\ m.err = "toomany" /\ Rejected

\* C10: when the command line holds -h or is rejected, the process ends
\* with no device interaction before it (no configuration, no register
\* write, no axidma_init, no channel query, no send, no receive), with
\* status 0 for -h and a status other than 0 for a rejected command line.
C10_NoDeviceBeforeArgumentExit ==
    (proc = "exited" /\ m.err # "none") =>
      /\ configs = 0 /\ regw = 0 /\ initCalls = 0 /\ queries = 0
      /\ sends = << >> /\ nreads = 0
      /\ m.err = "help" => status = 0
      /\ m.err # "help" => status # 0


\* main has both channel sets and has applied the channel defaults
MainResolved == m.tx # << >> /\ m.rx # << >> /\ m.pc # "resolve"

\* the channel fields of main's descriptor
MainChannels == << m.trans.input_channel, m.trans.output_channel >>

\* C11: with neither -t nor -r on the command line and both channel sets
\* non-empty, main's descriptor has input_channel = the first transmit
\* channel and output_channel = the first receive channel (2 and 1 for the
\* sets <<2, 3>> and <<1, 4>>), and no later step changes the two fields.
C11_DefaultsAreFirstChannels ==
    [][ (~HasOpt(argv, "t") /\ ~HasOpt(argv, "r") /\ MainResolved')
          => /\ MainChannels' = << m'.tx[1], m'.rx[1] >>
             /\ (m'.tx = <<2, 3>> /\ m'.rx = <<1, 4>>) => MainChannels' = <<2, 1>>
             /\ MainResolved => MainChannels' = MainChannels ]_vars

C11_Witness ==
    /\ ~HasOpt(argv, "t") /\ ~HasOpt(argv, "r")
    /\ MainResolved /\ MainChannels = <<2, 1>>
    /\ m.pc = "done" /\ Len(sends) = 3

\* main's transmit query has reported an empty set, or its receive query has
MainTxEmpty == m.dev # NULL /\ m.pc \notin {"get_tx"} /\ m.tx = << >>
MainRxEmpty == m.tx # << >> /\ m.pc \notin {"get_rx"} /\ m.rx = << >>

\* C12: when the transmit set is reported empty (the receive set is then
\* not even queried), or the receive set is, no send is made and no receive
\* thread is started, main goes to its cleanup, and when the process has
\* ended main's handle has been destroyed once and the status is not 0.
C12_EmptySetIsFatal ==
    (MainTxEmpty \/ MainRxEmpty) =>
      /\ sends = << >> /\ r.pc = "none" /\ nreads = 0
      /\ m.pc \in {"destroy_axidma", "close_output", "ret", "done"}
      /\ m.pc \in {"close_output", "ret", "done"} => handles[m.dev] = 1
      /\ ~Alive => proc = "exited" /\ status # 0 /\ handles[m.dev] = 1

C12_Witness ==
    /\ MainTxEmpty /\ m.rx = << >> /\ queries = 1
    /\ proc = "exited" /\ status = 237 /\ handles = <<1>>

C12_WitnessRx ==
    MainRxEmpty /\ proc = "exited" /\ status = 237 /\ handles = <<1>>

\* the value of the last option o of the command line
RECURSIVE LastVal(_, _)
LastVal(opts, o) ==
    IF opts[Len(opts)].opt = o THEN opts[Len(opts)].val
    ELSE LastVal(SubSeq(opts, 1, Len(opts) - 1), o)

\* C13: with both -t a and -r b on the command line, every send is made
\* with input_channel = a and output_channel = b in main's descriptor, for
\* every a and b, members of the reported sets or not.
C13_ExplicitChannelsKept ==
    (HasOpt(argv, "t") /\ HasOpt(argv, "r") /\ sends # << >>) =>
      /\ \A k \in 1..Len(sends) : sends[k].chan = LastVal(argv.opts, "t")
      /\ m.trans.input_channel = LastVal(argv.opts, "t")
      /\ m.trans.output_channel = LastVal(argv.opts, "r")


\* C16: every receive call of the receive thread is made with the
\* output_channel of main's resolved descriptor.  Stated for the runs in
\* which the thread finds no channel option in what it parses, so that its
\* descriptor holds the first channels of the sets it was given.
C16_SameReceiveChannel ==
    (r.pc = "read_wait" /\ r.trans.output_channel = r.rx[1])
        => r.trans.output_channel = m.trans.output_channel

\* every send of main has been made and has returned
AllSendsDone == Len(sends) = 3 /\ \A k \in 1..3 : sends[k].done

\* C17: the receive thread exists only when the three sends of main have
\* returned: no receive call is made before that, and no send is
\* outstanding while the thread runs or a receive call is in progress.
C17_ThreadAfterSends ==
    /\ r.pc # "none" => AllSendsDone
    /\ nreads > 0 => AllSendsDone
    /\ ~(r.pc = "read_wait" /\ \E k \in 1..Len(sends) : ~sends[k].done)

C17_Witness ==
    r.pc = "read_wait" /\ AllSendsDone /\ m.pc = "detach"

\* C18: when main has returned and some send of the run had failed, the
\* exit status is not 0; the status is 0 only when every send succeeded.
C18_FailedSendFailsRun ==
    (proc = "exited" /\ m.pc = "done" /\ sends # << >>) =>
      /\ (\E k \in 1..Len(sends) : sends[k].rc < 0) => status # 0
      /\ status = 0 => \A k \in 1..Len(sends) : sends[k].rc = 0

\* C19: every assert(close(trans.output_fd) == 0) that is executed holds:
\* descriptor 0 is open whenever a thread closes it, so no assertion aborts
\* the process.
C19_CloseAssertionsHold ==
    /\ proc # "aborted"
    /\ (Alive /\ m.pc = "close_output") => fdOpen
    /\ (Alive /\ r.pc = "close_output") => fdOpen

\* h is a handle axidma_init has handed out and nobody has destroyed
HandleLive(h) == h \in 1..Len(handles) /\ handles[h] = 0

\* C20: a thread that is about to make, or is in, a channel query, a send
\* or a receive holds a handle that axidma_init handed out and that has not
\* been destroyed; a thread about to call axidma_destroy holds such a handle
\* as well, so that only initialised handles are destroyed and none twice.
C20_HandlesLiveInUse ==
    /\ m.pc \in {"get_tx", "get_rx", "resolve", "send1", "send2", "send3",
                 "wait1", "wait2", "wait3", "destroy_axidma"}
          => HandleLive(m.dev)
    /\ r.pc \in {"get_tx", "get_rx", "resolve", "read", "read_wait", "print",
                 "destroy_axidma"}
          => HandleLive(r.dev)
    /\ \A h \in 1..Len(handles) : handles[h] <= 1

C20_Witness ==
    /\ r.pc = "read_wait" /\ HandleLive(r.dev)
    /\ m.pc \in {"close_output", "ret"} /\ handles[m.dev] = 1


\* C14: sbuffer is filled once, by main, before any send and before the
\* receive thread is started, and never by the receive thread; rbuffer is
\* written and read by the receive thread alone.
C14_BuffersSingleWriter ==
    /\ Len(sbufFills) <= 1
    /\ \A i \in 1..Len(sbufFills) : sbufFills[i] = "main"
    /\ (sends # << >> \/ r.pc # "none") => sbufFills = << "main" >>
    /\ rbufUsers \subseteq {"rec"}

\* the receive thread has printed a round and not begun the next
RoundPrinted == r.pc = "read" /\ out # << >>

IsHex(t) == t.k = "hex"

\* the byte tokens among the first p - 1 items printed
HexBefore(p) == Cardinality({ q \in 1..(p - 1) : out[q].k = "hex" })

\* C15: after a receive that returned N with 0 <= N <= 2048 the round's
\* output is the count N, then exactly N byte tokens, which are bytes
\* 0..N-1 of rbuffer in order, with a line break before every token whose
\* index is a multiple of 16 and nowhere else.
C15_DumpIsExact ==
    (RoundPrinted /\ r.rec_len >= 0 /\ r.rec_len <= MAXLENGTH) =>
      LET N == r.rec_len
          hex == SelectSeq(out, IsHex)
      IN  /\ out[1] = [k |-> "len", v |-> N]
          /\ \A p \in 2..Len(out) : out[p].k \in {"nl", "hex"}
          /\ Len(hex) = N
          /\ \A i \in 1..N : hex[i].v = rbuffer[i]
          /\ \A p \in 2..Len(out) :
                out[p].k = "hex" =>
                  ((HexBefore(p) % 16 = 0) <=> out[p - 1].k = "nl")
          /\ \A p \in 2..Len(out) :
                out[p].k = "nl" => p < Len(out) /\ out[p + 1].k = "hex"

C15_Witness ==
    /\ RoundPrinted /\ r.rec_len = 17
    /\ Len(out) = 20
    /\ out[2].k = "nl" /\ out[19].k = "nl"
    /\ out[3].v = 250 /\ out[9].v = 0 /\ out[20].v = 10

====
